---- MODULE Spec2Model ----
(***************************************************************************)
(* Folder listing and bulk read of filesystem-operations-mcp:              *)
(* FolderOperations._matches_globs, FolderOperations.contents,             *)
(* FolderOperations.read_all with its head/tail window and notifications,  *)
(* the handle_file_errors / handle_folder_errors context managers and the  *)
(* denied_operations loop of the two constructors.                         *)
(* Paths, glob patterns and file texts are strings; fnmatch is modelled by *)
(* what its regular-expression translation accepts, and a text-mode read   *)
(* by the universal-newline translation it makes.                          *)
(***************************************************************************)
EXTENDS Integers, Sequences, FiniteSets, TLC

VARIABLES
    tree,                     \* the files below the root, in directory-scan order
    rootState,                \* "ok", "missing" or "denied": what opening the root gives
    list_folder_exclusions,   \* FolderOperations.list_folder_exclusions
    read_file_exclusions,     \* FolderOperations.read_file_exclusions
    pc,                       \* position of the call in flight
    op,                       \* the arguments of the call in flight (or of the last call)
    files,                    \* read_all: the filtered listing
    unfiltered_file_count,    \* read_all: length of the unfiltered listing
    idx,                      \* read_all: position of the for loop in files (1-based)
    results,                  \* read_all: FileReadSuccess entries
    errors,                   \* read_all: FileReadError entries
    ret,                      \* what the last call returned or raised
    probe,                    \* the last direct evaluation of _matches_globs
    removed,                  \* files another process removed during the call
    lost,                     \* listed files removed before read_all had read them
    notify,                   \* "delivered", or "failing": a notification may raise
    handled,                  \* the last exception put through an error handler
    klass,                    \* the names each operations class defines itself
    inst,                     \* the last construction of an operations object
    previous                  \* the call made before the one in flight, and its outcome

vars == <<tree, rootState, list_folder_exclusions, read_file_exclusions, pc, op,
          files, unfiltered_file_count, idx, results, errors, ret, probe, removed,
          lost, notify, handled, klass, inst, previous>>

----------------------------------------------------------------------------
(* Bounds of the model *)

\* Largest number of files in a generated tree.
MaxTreeSize == 2

\* Largest number of files another process removes while a call is in flight.
MaxRemoved == 1

\* Largest head argument of read_all.
MaxHead == 3

\* Largest tail argument of read_all.
MaxTail == 2

\* Longest denied_operations list.
MaxDenied == 2

----------------------------------------------------------------------------
(* Program constants *)

DEFAULT_SKIP_LIST ==
    << "**/.?*/**", ".?*/**", "**/.?*", "**/.git/**", ".git/*", "**/.svn/**",
       ".svn/*", "**/.mypy_cache/**", ".mypy_cache/*", "**/.pytest_cache/**",
       "*.pytest_cache/*", "**/__pycache__/**", "*__pycache__/*", "**/.venv/**",
       ".venv/*" >>

DEFAULT_SKIP_READ ==
    << "*.pyc", "*.pyo", "*.pyd", "*.hg", "*.tox", "*.com", "*.class", "*.dll",
       "*.exe", "*.o", "*.so", "*.7z", "*.dmg", "*.gz", "*.iso", "*.jar", "*.rar",
       "*.tar", "*.zip", "*.msi", "*.sqlite", "*.DS_Store", "*.DS_Store?", "*._*",
       "*.Spotlight-V100", "*.Trashes", "*ehthumbs.db", "*Thumbs.db",
       "*desktop.ini", "*.bak", "*.swp", "*.swo", "*~", "*#" >>

----------------------------------------------------------------------------
(* Strings *)

Ch(s, i) == SubSeq(s, i, i)

\* Position of the first "/" of s, or 0.
RECURSIVE SlashFrom(_, _)
SlashFrom(s, i) ==
    IF i > Len(s) THEN 0
    ELSE IF Ch(s, i) = "/" THEN i
    ELSE SlashFrom(s, i + 1)

StartsWith(s, p) == Len(p) <= Len(s) /\ SubSeq(s, 1, Len(p)) = p

EndsWith(s, p) == Len(p) <= Len(s) /\ SubSeq(s, Len(s) - Len(p) + 1, Len(s)) = p

\* The distinct elements of a sequence, each at its first position.
RECURSIVE Dedup(_)
Dedup(s) ==
    IF s = << >> THEN << >>
    ELSE LET r == Dedup(SubSeq(s, 1, Len(s) - 1))
             x == s[Len(s)]
         IN  IF \E i \in 1..Len(r) : r[i] = x THEN r ELSE Append(r, x)

----------------------------------------------------------------------------
(* fnmatch.fnmatch(name, pat): on POSIX normcase is the identity, and the   *)
(* pattern is translated to a regular expression matched against the whole *)
(* name: "*" becomes ".*" and "?" becomes "." (both match "/" too), every  *)
(* other character matches itself.  No pattern of the model uses "[".      *)

\* The positions j such that the first k characters of pat match name[1..j].
RECURSIVE MatchEnds(_, _, _)
MatchEnds(name, pat, k) ==
    IF k = 0 THEN {0}
    ELSE LET prev == MatchEnds(name, pat, k - 1)
             c == Ch(pat, k)
         IN  IF prev = {} THEN {}
             ELSE IF c = "*" THEN {j \in 0..Len(name) : \E i \in prev : i <= j}
             ELSE IF c = "?" THEN {i + 1 : i \in {h \in prev : h < Len(name)}}
             ELSE {i + 1 : i \in {h \in prev : h < Len(name) /\ Ch(name, h + 1) = c}}

fnmatch(name, pat) == Len(name) \in MatchEnds(name, pat, Len(pat))

\* any(fnmatch(path, pat) for pat in pats), scanning from position i.
RECURSIVE AnyMatch(_, _, _)
AnyMatch(path, pats, i) ==
    IF i > Len(pats) THEN FALSE
    ELSE IF fnmatch(path, pats[i]) THEN TRUE
    ELSE AnyMatch(path, pats, i + 1)

\* _matches_globs as it would be if an include match overrode the exclusion
MatchesGlobsIncludeWins(path, include, exclude) ==
    LET included == IF include # << >> THEN AnyMatch(path, include, 1) ELSE FALSE
        excluded == AnyMatch(path, exclude, 1)
    IN  included \/ ~excluded

\* FolderOperations._matches_globs
MatchesGlobs(path, include, exclude) ==
    LET included == IF include # << >> THEN AnyMatch(path, include, 1) ELSE TRUE
        excluded == AnyMatch(path, exclude, 1)
    IN  included /\ ~excluded

----------------------------------------------------------------------------
(* The file system below the root.  A tree is a sequence of entries that   *)
(* are not directories, in the order a directory scan yields them; a       *)
(* directory exists when an entry lies below it.                           *)
(*   dir   the directory of the entry relative to the root ("" = the root) *)
(*   kind  "file" (a regular file) or "other" (a FIFO, a dangling link)    *)
(*   data  what open/read does: "binary" fails to decode, "noperm" is      *)
(*         refused, "ioerr" fails with another OSError; any other value    *)
(*         is the text stored in the file and is read                      *)

Node(d, n, k, c) == [dir |-> d, name |-> n, kind |-> k, data |-> c]

Universe ==
    { Node("", "a.txt", "file", "text"),
      Node("", "b.log", "file", "binary"),
      Node("", ".env", "file", "noperm"),
      Node("sub", "c.txt", "file", "text"),
      Node("sub", "x.pyc", "file", "ioerr"),
      Node("", "p", "other", "text") }

ScenarioTree ==
    << Node("", "file1.txt", "file", "text"),
       Node("", "file2.log", "file", "text"),
       Node(".git", "config", "file", "text"),
       Node("__pycache__", "cache.pyc", "file", "text"),
       Node("subdir", "file3.txt", "file", "text"),
       Node("subdir/.venv", "script.py", "file", "text"),
       Node("subdir", "data.csv", "file", "text") >>

Injective(s) == \A i, j \in 1..Len(s) : s[i] = s[j] => i = j

Trees ==
    {s \in UNION {[1..n -> Universe] : n \in 0..MaxTreeSize} : Injective(s)}
    \cup {ScenarioTree}

\* The path of an entry relative to the root, as the operating system names it.
NodePath(n) == IF n.dir = "" THEN n.name ELSE n.dir \o "/" \o n.name

\* Path resolution ignores a leading "./".
RECURSIVE Normalize(_)
Normalize(p) == IF StartsWith(p, "./") THEN Normalize(SubSeq(p, 3, Len(p))) ELSE p

\* x is a directory strictly below directory d
Below(d, x) == x # d /\ (d = "" \/ StartsWith(x, d \o "/"))

\* The child directory of d on the way to x (x below d).
ChildDir(d, x) ==
    LET rest == IF d = "" THEN x ELSE SubSeq(x, Len(d) + 2, Len(x))
        k == SlashFrom(rest, 1)
        seg == IF k = 0 THEN rest ELSE SubSeq(rest, 1, k - 1)
    IN  IF d = "" THEN seg ELSE d \o "/" \o seg

FilesIn(d, t) == SelectSeq(t, LAMBDA n : n.dir = d)

SubDirs(d, t) ==
    LET below == SelectSeq(t, LAMBDA n : Below(d, n.dir))
    IN  Dedup([i \in 1..Len(below) |-> ChildDir(d, below[i].dir)])

\* os.walk(top), top-down, errors ignored (onerror=None): the (dir_, file_name)
\* pairs that the two nested for loops of contents visit, in order.
RECURSIVE Walk(_, _)
RECURSIVE WalkDirs(_, _, _)
Walk(d, t) ==
    LET here == FilesIn(d, t)
    IN  [i \in 1..Len(here) |-> [dir_ |-> d, file_name |-> here[i].name]]
        \o WalkDirs(SubDirs(d, t), 1, t)
WalkDirs(ds, i, t) ==
    IF i > Len(ds) THEN << >> ELSE Walk(ds[i], t) \o WalkDirs(ds, i + 1, t)

\* os.walk on a root that is missing or cannot be opened yields nothing.
OsWalk(t, rs) == IF rs = "ok" THEN Walk("", t) ELSE << >>

\* os.listdir(root): the names of the immediate children, or the exception.
OsListdir(t, rs) ==
    IF rs = "missing" THEN [exc |-> "FileNotFoundError", names |-> << >>]
    ELSE IF rs = "denied" THEN [exc |-> "PermissionError", names |-> << >>]
    ELSE [exc |-> "",
          names |-> Dedup([i \in 1..Len(t) |-> ChildDir("", NodePath(t[i]))])]

\* relpath as it would be if the root were rendered by the empty string
RelPathBare(d) == d

\* os.path.relpath(dir_, folder_path) for a directory of the walk
RelPath(d) == IF d = "" THEN "." ELSE d

\* os.path.join(a, b)
Join(a, b) ==
    IF StartsWith(b, "/") THEN b
    ELSE IF a = "" \/ EndsWith(a, "/") THEN a \o b
    ELSE a \o "/" \o b

\* os.path.isfile(os.path.join(folder_path, file))
IsFile(t, file) ==
    \E i \in 1..Len(t) : NodePath(t[i]) = Normalize(file) /\ t[i].kind = "file"

----------------------------------------------------------------------------
(* Results of a call *)

NoError == [type |-> "", message |-> "", path |-> ""]

NoSummary == [total_files |-> 0, skipped_files |-> 0, errors |-> << >>, results |-> << >>]

NoReturn == [kind |-> "none", list |-> << >>, error |-> NoError, summary |-> NoSummary]

ReturnList(l) == [NoReturn EXCEPT !.kind = "list", !.list = l]

ReturnSummary(s) == [NoReturn EXCEPT !.kind = "summary", !.summary = s]

Raise(e) == [NoReturn EXCEPT !.kind = "error", !.error = e]

\* handle_folder_errors(path): what leaves the context manager when the body
\* raises an exception of type exc.  The MCP error types are neither
\* FileNotFoundError nor PermissionError, so they take the last branch.
HandleFolderErrors(exc, path) ==
    IF exc = "FileNotFoundError"
    THEN [type |-> "MCPFolderNotFoundError", message |-> "Folder not found", path |-> path]
    ELSE IF exc = "PermissionError"
    THEN [type |-> "MCPFolderOperationError", message |-> "Permission denied", path |-> path]
    ELSE [type |-> "MCPFolderOperationError", message |-> "An unexpected error occurred",
          path |-> path]

\* handle_file_errors as it would be without its PermissionError clause.
HandleFileErrorsNoPermission(exc, path) ==
    IF exc = "FileNotFoundError"
    THEN [type |-> "MCPFileNotFoundError", message |-> "File not found", path |-> path]
    ELSE [type |-> "MCPFileOperationError", message |-> "An unexpected error occurred",
          path |-> path]

\* handle_file_errors(path): what leaves the context manager when the body
\* raises an exception of type exc.
HandleFileErrors(exc, path) ==
    IF exc = "FileNotFoundError"
    THEN [type |-> "MCPFileNotFoundError", message |-> "File not found", path |-> path]
    ELSE IF exc = "PermissionError"
    THEN [type |-> "MCPFileOperationError", message |-> "Permission denied", path |-> path]
    ELSE [type |-> "MCPFileOperationError", message |-> "An unexpected error occurred",
          path |-> path]

\* str() of an MCP error, up to the text of the exception it wraps.
ErrorText(e) ==
    (IF e.type \in {"MCPFileNotFoundError", "MCPFileOperationError"}
     THEN "Error performing operation on file "
     ELSE "Error performing operation on folder ")
        \o e.path \o ": " \o e.message

\* The category of a call-level error.
Category(e) ==
    IF e.type = "MCPFolderNotFoundError" THEN "NotFound"
    ELSE IF e.message = "Permission denied" THEN "PermissionDenied"
    ELSE "Other"

----------------------------------------------------------------------------
(* FolderOperations.contents *)

\* The recursive branch as it would be without the "continue" of line 194:
\* an entry that fails the default-exclusion check still reaches the
\* caller's filter.
RECURSIVE WalkLoopNoContinue(_, _, _, _, _, _, _)
WalkLoopNoContinue(pairs, i, contents, lexcl, include, exclude, bypass) ==
    IF i > Len(pairs) THEN contents
    ELSE LET rel_file == Join(RelPath(pairs[i].dir_), pairs[i].file_name)
         IN  IF MatchesGlobs(rel_file, include, exclude)
             THEN WalkLoopNoContinue(pairs, i + 1, Append(contents, rel_file),
                                     lexcl, include, exclude, bypass)
             ELSE WalkLoopNoContinue(pairs, i + 1, contents,
                                     lexcl, include, exclude, bypass)

\* The recursive branch: the loops over os.walk, from pair i on.
RECURSIVE WalkLoop(_, _, _, _, _, _, _)
WalkLoop(pairs, i, contents, lexcl, include, exclude, bypass) ==
    IF i > Len(pairs) THEN contents
    ELSE LET rel_dir == RelPath(pairs[i].dir_)
             rel_file == Join(rel_dir, pairs[i].file_name)
         IN  IF ~bypass /\ ~MatchesGlobs(rel_file, <<"*">>, lexcl)
             THEN WalkLoop(pairs, i + 1, contents, lexcl, include, exclude, bypass)
             ELSE IF MatchesGlobs(rel_file, include, exclude)
             THEN WalkLoop(pairs, i + 1, Append(contents, rel_file),
                           lexcl, include, exclude, bypass)
             ELSE WalkLoop(pairs, i + 1, contents, lexcl, include, exclude, bypass)

\* list.remove(x): the list without the first occurrence of x
RECURSIVE Remove(_, _)
Remove(l, x) ==
    IF l = << >> THEN << >>
    ELSE IF Head(l) = x THEN Tail(l)
    ELSE <<Head(l)>> \o Remove(Tail(l), x)

\* The non-recursive branch: "for file in contents" over the list that the
\* body shrinks.  The list iterator keeps an index: i is the position of the
\* next element it yields, and it stops when i passes the current length.
RECURSIVE ListdirLoop(_, _, _)
ListdirLoop(contents, i, lexcl) ==
    IF i > Len(contents) THEN contents
    ELSE IF ~MatchesGlobs(contents[i], <<"*">>, lexcl)
    THEN ListdirLoop(Remove(contents, contents[i]), i + 1, lexcl)
    ELSE ListdirLoop(contents, i + 1, lexcl)

Contents(t, rs, lexcl, folder_path, include, exclude, recurse, bypass) ==
    IF recurse
    THEN ReturnList(WalkLoop(OsWalk(t, rs), 1, << >>, lexcl, include, exclude, bypass))
    ELSE LET l == OsListdir(t, rs)
         IN  IF l.exc # "" THEN Raise(HandleFolderErrors(l.exc, folder_path))
             ELSE ReturnList(ListdirLoop(l.names, 1, lexcl))

----------------------------------------------------------------------------
(* FolderOperations.read_all: one loop iteration *)

\* open(file_path, "r", encoding="utf-8", errors="strict") and the read:
\* the exception raised, or "" when the content is read.
OpenRead(t, file) ==
    IF \A i \in 1..Len(t) : NodePath(t[i]) # Normalize(file) THEN "FileNotFoundError"
    ELSE LET n == t[CHOOSE i \in 1..Len(t) : NodePath(t[i]) = Normalize(file)]
         IN  IF n.data = "noperm" THEN "PermissionError"
             ELSE IF n.data = "binary" THEN "UnicodeDecodeError"
             ELSE IF n.data = "ioerr" THEN "OSError"
             ELSE ""

\* The read-exclusion check as it would be with the sense of the bypass flag
\* inverted: the patterns apply only to a bypassing call.
ReadExcludedInverted(file, rexcl, bypass) ==
    bypass /\ ~MatchesGlobs(file, <<"*">>, rexcl)

\* The read-exclusion check as it would be without the bypass flag.
ReadExcludedAlways(file, rexcl, bypass) ==
    ~MatchesGlobs(file, <<"*">>, rexcl)

\* The bytes stored in the file that the path names.
Stored(t, file) ==
    t[CHOOSE i \in 1..Len(t) : NodePath(t[i]) = Normalize(file)].data

\* Text mode with the default newline=None: "\r\n" and "\r" are read as "\n".
RECURSIVE Translate(_)
Translate(s) ==
    IF s = "" THEN ""
    ELSE IF Ch(s, 1) = "\r"
    THEN "\n" \o Translate(IF Len(s) >= 2 /\ Ch(s, 2) = "\n"
                           THEN SubSeq(s, 3, Len(s))
                           ELSE SubSeq(s, 2, Len(s)))
    ELSE Ch(s, 1) \o Translate(SubSeq(s, 2, Len(s)))

\* Position of the first "\n" of s from position i on, or 0.
RECURSIVE NewlineFrom(_, _)
NewlineFrom(s, i) ==
    IF i > Len(s) THEN 0
    ELSE IF Ch(s, i) = "\n" THEN i
    ELSE NewlineFrom(s, i + 1)

\* f.readlines() on the translated text: the lines, each with its "\n".
RECURSIVE ReadLines(_)
ReadLines(s) ==
    IF s = "" THEN << >>
    ELSE LET k == NewlineFrom(s, 1)
         IN  IF k = 0 THEN <<s>>
             ELSE <<SubSeq(s, 1, k)>> \o ReadLines(SubSeq(s, k + 1, Len(s)))

\* "".join(lines)
RECURSIVE StrJoin(_)
StrJoin(lines) ==
    IF lines = << >> THEN "" ELSE Head(lines) \o StrJoin(Tail(lines))

\* The content as it would be if tail were tested before head.
ReadContentTailFirst(data, head, tail) ==
    IF tail > 0
    THEN Translate(SubSeq(data, IF Len(data) > tail THEN Len(data) - tail + 1 ELSE 1,
                          Len(data)))
    ELSE IF head > 0
    THEN LET lines == ReadLines(Translate(data))
         IN  StrJoin(SubSeq(lines, 1, IF head < Len(lines) THEN head ELSE Len(lines)))
    ELSE Translate(data)

\* Lines 270-278: what is read from the open file.  With head > 0 the first
\* head lines; otherwise with tail > 0 the text from tail bytes before the
\* end; otherwise all of it.
ReadContent(data, head, tail) ==
    IF head > 0
    THEN LET lines == ReadLines(Translate(data))
         IN  StrJoin(SubSeq(lines, 1, IF head < Len(lines) THEN head ELSE Len(lines)))
    ELSE IF tail > 0
    THEN Translate(SubSeq(data, IF Len(data) > tail THEN Len(data) - tail + 1 ELSE 1,
                          Len(data)))
    ELSE Translate(data)

\* Lines 259-265: the read-exclusion check that skips the file.
ReadExcluded(file, rexcl, bypass) ==
    ~bypass /\ ~MatchesGlobs(file, <<"*">>, rexcl)

----------------------------------------------------------------------------
(* Inputs *)

Root == "root"

Includes == { << >>, <<"**/*">>, <<"*.txt">> }

Excludes == { << >>, <<"*.log">> }

\* The exclusion lists an instance is constructed with: the settings'
\* defaults (server.py) or lists of the operator's own.
Configs ==
    { [list |-> DEFAULT_SKIP_LIST, read |-> DEFAULT_SKIP_READ],
      [list |-> <<"*.log", "*.env">>, read |-> <<"*.txt">>] }

\* The arguments of a call; head and tail have the default 0.
Args(name, include, exclude, recurse, bypass) ==
    [name |-> name, include |-> include, exclude |-> exclude,
     recurse |-> recurse, bypass |-> bypass, head |-> 0, tail |-> 0]

NoProbe == [path |-> "", include |-> << >>, exclude |-> << >>, result |-> TRUE]

NoPrev == [op |-> Args("none", << >>, << >>, FALSE, FALSE), ret |-> NoReturn]

NoHandled == [handler |-> "", raised |-> "", path |-> "", out |-> NoError]

\* The tools each class defines in its own body.
OwnNames ==
    [ FileOperations |-> {"read", "create", "append", "erase", "move", "delete"},
      FolderOperations |-> {"create", "contents", "read_all", "move", "delete"} ]

\* Names an instance has without its class defining them: register_all comes
\* from MCPMixin, __str__ from object.
Inherited == {"register_all", "__str__"}

NoInst == [class |-> "", denied |-> << >>, outcome |-> ""]

\* The variables of the direct evaluations and of construction before use.
AsideQuiet ==
    /\ probe = NoProbe
    /\ handled = NoHandled
    /\ klass = OwnNames
    /\ inst = NoInst

----------------------------------------------------------------------------
(* Initial states and actions *)

\* The state after construction, with the given notification channel.
Start(channel) ==
    /\ tree \in Trees
    /\ rootState \in {"ok", "missing", "denied"}
    /\ rootState # "ok" => tree = << >>
    /\ \E c \in Configs :
          /\ list_folder_exclusions = c.list
          /\ read_file_exclusions = c.read
    /\ pc = "idle"
    /\ op = Args("none", << >>, << >>, FALSE, FALSE)
    /\ files = << >>
    /\ unfiltered_file_count = 0
    /\ idx = 1
    /\ results = << >>
    /\ errors = << >>
    /\ ret = NoReturn
    /\ AsideQuiet
    /\ removed = 0
    /\ lost = {}
    /\ notify = channel
    /\ previous = NoPrev

Init == Start("delivered")

\* Whether an emission of ctx.info, ctx.debug or ctx.error raises.
Emit == IF notify = "failing" THEN BOOLEAN ELSE {FALSE}

\* What a failing emission raises.
NotifyError == "RuntimeError"

\* contents with its notifications: a successful listing has awaited at least
\* ctx.info (line 210) inside handle_folder_errors; os.listdir raises before
\* any emission.
ContentsNotified(r, fail, folder_path) ==
    IF fail /\ r.kind = "list"
    THEN Raise(HandleFolderErrors(NotifyError, folder_path))
    ELSE r

\* The variables of the direct evaluations, which no call touches.
Aside == <<probe, handled, klass, inst>>

Env == <<tree, rootState, list_folder_exclusions, read_file_exclusions, notify, Aside>>

\* folder.contents with the arguments a, the whole call
ContentsStep(a) ==
    /\ op' = a
    /\ \E fail \in Emit :
          ret' = ContentsNotified(Contents(tree, rootState, list_folder_exclusions, Root,
                                           a.include, a.exclude, a.recurse, a.bypass),
                                  fail, Root)
    /\ pc' = "done"
    /\ files' = << >>
    /\ unfiltered_file_count' = 0
    /\ idx' = 1
    /\ results' = << >>
    /\ errors' = << >>
    /\ removed' = 0
    /\ lost' = {}
    /\ UNCHANGED Env

CallContents ==
    /\ pc = "idle"
    /\ \E include \in Includes, exclude \in Excludes, recurse \in BOOLEAN, bypass \in BOOLEAN :
          ContentsStep(Args("contents", include, exclude, recurse, bypass))
    /\ UNCHANGED previous

\* folder.read_all with the arguments a, lines 243-246: the filtered listing.
\* An error of contents passes through read_all's own handle_folder_errors.
ReadAllListStep(a) ==
    /\ op' = a
    /\ \E fail \in Emit :
          LET r == ContentsNotified(Contents(tree, rootState, list_folder_exclusions, Root,
                                             a.include, a.exclude, a.recurse, a.bypass),
                                    fail, Root)
          IN  IF r.kind = "error"
              THEN /\ ret' = Raise(HandleFolderErrors(r.error.type, Root))
                   /\ pc' = "done"
                   /\ files' = << >>
              ELSE /\ ret' = NoReturn
                   /\ pc' = "count"
                   /\ files' = r.list
    /\ unfiltered_file_count' = 0
    /\ idx' = 1
    /\ results' = << >>
    /\ errors' = << >>
    /\ removed' = 0
    /\ lost' = {}
    /\ UNCHANGED Env

ReadAllList ==
    /\ pc = "idle"
    /\ \E include \in Includes, exclude \in Excludes, recurse \in BOOLEAN, bypass \in BOOLEAN :
          ReadAllListStep(Args("read_all", include, exclude, recurse, bypass))
    /\ UNCHANGED previous

\* lines 247-254: the unfiltered listing, counted
ReadAllCount ==
    /\ pc = "count"
    /\ \E fail \in Emit :
          LET r == ContentsNotified(Contents(tree, rootState, list_folder_exclusions, Root,
                                             << >>, << >>, op.recurse, op.bypass),
                                    fail, Root)
          IN  IF r.kind = "error"
              THEN /\ ret' = Raise(HandleFolderErrors(r.error.type, Root))
                   /\ pc' = "done"
                   /\ unfiltered_file_count' = 0
              ELSE /\ ret' = NoReturn
                   /\ pc' = "loop"
                   /\ unfiltered_file_count' = Len(r.list)
    /\ UNCHANGED <<Env, op, files, idx, results, errors, removed, lost, previous>>

\* lines 256-268: the next file of the loop, up to the isfile test.  The
\* ctx.debug of line 264 is awaited outside the try block.
ReadAllNext ==
    /\ pc = "loop"
    /\ idx <= Len(files)
    /\ IF ReadExcluded(files[idx], read_file_exclusions, op.bypass)
       THEN \E fail \in Emit :
               IF fail
               THEN /\ ret' = Raise(HandleFolderErrors(NotifyError, Root))
                    /\ idx' = idx
                    /\ pc' = "done"
               ELSE /\ ret' = ret
                    /\ idx' = idx + 1
                    /\ pc' = "loop"
       ELSE IF ~IsFile(tree, files[idx])
       THEN ret' = ret /\ idx' = idx + 1 /\ pc' = "loop"
       ELSE ret' = ret /\ idx' = idx /\ pc' = "open"
    /\ UNCHANGED <<Env, op, files, unfiltered_file_count, results, errors, removed, lost, previous>>

\* The open step as it would be without the try/except: the exception leaves
\* the loop and reaches handle_folder_errors.
ReadAllOpenUncaught ==
    /\ pc = "open"
    /\ LET file == files[idx]
           exc == OpenRead(tree, file)
       IN  IF exc = ""
           THEN /\ results' = Append(results,
                                     [file_path |-> file,
                                      content |-> ReadContent(Stored(tree, file),
                                                              op.head, op.tail)])
                /\ idx' = idx + 1
                /\ pc' = "loop"
                /\ ret' = ret
           ELSE /\ results' = results
                /\ idx' = idx
                /\ pc' = "done"
                /\ ret' = Raise(HandleFolderErrors(exc, Root))
    /\ UNCHANGED <<Env, op, files, unfiltered_file_count, errors, removed, lost, previous>>

\* lines 269-283: open and read the file; every exception raised in the try
\* block is caught, that of the ctx.debug of line 280 included, while the
\* ctx.error of line 283 is awaited in the except clause.
ReadAllOpen ==
    /\ pc = "open"
    /\ \E failDebug \in Emit, failError \in Emit :
          LET file == files[idx]
              exc == OpenRead(tree, file)
              read == IF exc = ""
                      THEN Append(results,
                                  [file_path |-> file,
                                   content |-> ReadContent(Stored(tree, file),
                                                           op.head, op.tail)])
                      ELSE results
              caught == IF exc # "" THEN exc
                        ELSE IF failDebug THEN NotifyError
                        ELSE ""
          IN  /\ results' = read
              /\ IF caught = ""
                 THEN /\ errors' = errors
                      /\ ret' = ret
                      /\ idx' = idx + 1
                      /\ pc' = "loop"
                 ELSE /\ errors' = Append(errors, [file_path |-> file, error |-> caught])
                      /\ IF failError
                         THEN /\ ret' = Raise(HandleFolderErrors(NotifyError, Root))
                              /\ idx' = idx
                              /\ pc' = "done"
                         ELSE /\ ret' = ret
                              /\ idx' = idx + 1
                              /\ pc' = "loop"
    /\ UNCHANGED <<Env, op, files, unfiltered_file_count, removed, lost, previous>>

\* The summary as it would be if skipped_files counted the files not read
SummarySkippedUnread(fs, count, errs, res) ==
    [total_files |-> Len(fs), skipped_files |-> count - Len(res),
     errors |-> errs, results |-> res]

\* lines 285-290: the summary
Summary(fs, count, errs, res) ==
    [total_files |-> Len(fs), skipped_files |-> count - Len(fs),
     errors |-> errs, results |-> res]

ReadAllReturn ==
    /\ pc = "loop"
    /\ idx > Len(files)
    /\ ret' = ReturnSummary(Summary(files, unfiltered_file_count, errors, results))
    /\ pc' = "done"
    /\ UNCHANGED <<Env, op, files, unfiltered_file_count, idx, results, errors, removed, lost, previous>>

\* Another process removes a file while read_all is in flight.
ExternalRemove ==
    /\ pc \in {"count", "loop", "open"}
    /\ removed < MaxRemoved
    /\ \E i \in 1..Len(tree) :
          /\ tree' = SubSeq(tree, 1, i - 1) \o SubSeq(tree, i + 1, Len(tree))
          /\ lost' = lost \cup
                {files[k] : k \in {j \in idx..Len(files) :
                                     /\ tree[i].kind = "file"
                                     /\ Normalize(files[j]) = NodePath(tree[i])}}
    /\ removed' = removed + 1
    /\ UNCHANGED <<rootState, list_folder_exclusions, read_file_exclusions, notify, Aside,
                   pc, op, files, unfiltered_file_count, idx, results, errors, ret, previous>>

Next ==
    \/ CallContents
    \/ ReadAllList
    \/ ReadAllCount
    \/ ReadAllNext
    \/ ReadAllOpen
    \/ ReadAllReturn

\* One process, no other writer of the tree.
Spec == Init /\ [][Next]_vars

NextRace == Next \/ ExternalRemove

\* The same calls while another process removes files.
SpecRace == Init /\ [][NextRace]_vars

\* Another process creates a file while read_all is in flight; a directory
\* scan yields the new entry after the others.
ExternalCreate ==
    /\ pc \in {"count", "loop", "open"}
    /\ Len(tree) < MaxTreeSize
    /\ \E n \in Universe :
          /\ \A i \in 1..Len(tree) : NodePath(tree[i]) # NodePath(n)
          /\ tree' = Append(tree, n)
    /\ UNCHANGED <<rootState, list_folder_exclusions, read_file_exclusions, notify, Aside,
                   pc, op, files, unfiltered_file_count, idx, results, errors, ret, removed,
                   lost, previous>>

NextChurn == Next \/ ExternalRemove \/ ExternalCreate

\* The same calls while another process removes and creates files.
SpecChurn == Init /\ [][NextChurn]_vars

\* The caller repeats the call it has just made, with the same arguments
\* except bypass_default_exclusions=True.
CallAgainBypassing ==
    /\ pc = "done"
    /\ previous = NoPrev
    /\ ~op.bypass
    /\ previous' = [op |-> op, ret |-> ret]
    /\ IF op.name = "contents"
       THEN ContentsStep([op EXCEPT !.bypass = TRUE])
       ELSE ReadAllListStep([op EXCEPT !.bypass = TRUE])

NextBypass == Next \/ CallAgainBypassing

\* A call, then the same call bypassing the default exclusions.
SpecBypass == Init /\ [][NextBypass]_vars

\* The call variables before any call.
Quiet ==
    /\ pc = "idle"
    /\ op = Args("none", << >>, << >>, FALSE, FALSE)
    /\ files = << >>
    /\ unfiltered_file_count = 0
    /\ idx = 1
    /\ results = << >>
    /\ errors = << >>
    /\ ret = NoReturn
    /\ removed = 0
    /\ lost = {}
    /\ previous = NoPrev

\* The texts stored in the file of a head/tail read: empty, one line without
\* terminator, and lines ended by "\n", "\r\n" and "\r".
Texts == { "", "a", "a\nb\nc\n", "a\nb\nc", "a\r\nb\r\n", "a\rb\nc" }

WindowTrees == { <<Node("", "w.txt", "file", t)>> : t \in Texts }

Heads == 0..MaxHead

Tails == 0..MaxTail

InitWindow ==
    /\ tree \in WindowTrees
    /\ rootState = "ok"
    /\ list_folder_exclusions = DEFAULT_SKIP_LIST
    /\ read_file_exclusions = DEFAULT_SKIP_READ
    /\ notify = "delivered"
    /\ AsideQuiet
    /\ Quiet

\* folder.read_all with head and tail
ReadAllWindow ==
    /\ pc = "idle"
    /\ \E head \in Heads, tail \in Tails, recurse \in BOOLEAN :
          ReadAllListStep([Args("read_all", << >>, << >>, recurse, FALSE)
                              EXCEPT !.head = head, !.tail = tail])
    /\ UNCHANGED previous

NextWindow ==
    \/ ReadAllWindow
    \/ ReadAllCount
    \/ ReadAllNext
    \/ ReadAllOpen
    \/ ReadAllReturn

\* read_all of one text file with every head and tail of the model.
SpecWindow == InitWindow /\ [][NextWindow]_vars

\* Lines 97-101 (FolderOperations) and 31-35 (FileOperations): the loop over
\* denied_operations from position i on; own is what the class defines.
\* hasattr(self, operation) holds for own and for inherited names, and
\* delattr(Class, operation) raises AttributeError for a name that the class
\* does not define itself.
RECURSIVE Deny(_, _, _)
Deny(own, denied, i) ==
    IF i > Len(denied) THEN [own |-> own, exc |-> ""]
    ELSE IF denied[i] \in own THEN Deny(own \ {denied[i]}, denied, i + 1)
    ELSE IF denied[i] \in Inherited THEN [own |-> own, exc |-> "AttributeError"]
    ELSE Deny(own, denied, i + 1)

\* hasattr(instance, name) for an instance of class c
HasAttr(c, name) == name \in klass[c] \cup Inherited

\* The names a denied list is made of: tools, a name no class has, and an
\* inherited name.
DeniedNames == {"delete", "move", "copy", "register_all"}

DeniedLists == UNION {[1..n -> DeniedNames] : n \in 0..MaxDenied}

WorldQuiet ==
    /\ tree = << >>
    /\ rootState = "ok"
    /\ list_folder_exclusions = DEFAULT_SKIP_LIST
    /\ read_file_exclusions = DEFAULT_SKIP_READ
    /\ notify = "delivered"

InitDeny == WorldQuiet /\ AsideQuiet /\ Quiet

\* FileOperations(denied_operations=...) or FolderOperations(denied_operations=...)
Construct ==
    /\ \E c \in DOMAIN OwnNames, denied \in DeniedLists :
          LET r == Deny(klass[c], denied, 1)
          IN  /\ klass' = [klass EXCEPT ![c] = r.own]
              /\ inst' = [class |-> c, denied |-> denied,
                          outcome |-> IF r.exc = "" THEN "ok" ELSE r.exc]
    /\ UNCHANGED <<tree, rootState, list_folder_exclusions, read_file_exclusions, pc, op,
                   files, unfiltered_file_count, idx, results, errors, ret, removed, lost, notify,
                   previous, probe, handled>>

NextDeny == Construct

\* Constructions of operations objects with denied lists, one after another.
SpecDeny == InitDeny /\ [][NextDeny]_vars

\* The exceptions a body raises: those of the file system, of decoding, of a
\* failing notification, and the MCP errors of a nested handler.
Raised ==
    { "FileNotFoundError", "PermissionError", "OSError", "IsADirectoryError",
      "UnicodeDecodeError", "ValueError", NotifyError, "Exception",
      "MCPFileNotFoundError", "MCPFolderOperationError" }

HandlerPaths == { "test_file.txt", "test_folder", Root, "a.txt", "sub/c.txt", "" }

\* async with handle_file_errors(path) / handle_folder_errors(path) around a
\* body that raises exc, or nothing when exc is "".
Handle ==
    /\ \E h \in {"handle_file_errors", "handle_folder_errors"},
          exc \in Raised \cup {""}, path \in HandlerPaths :
          handled' = [handler |-> h, raised |-> exc, path |-> path,
                      out |-> IF exc = "" THEN NoError
                              ELSE IF h = "handle_file_errors"
                              THEN HandleFileErrors(exc, path)
                              ELSE HandleFolderErrors(exc, path)]
    /\ UNCHANGED <<tree, rootState, list_folder_exclusions, read_file_exclusions, pc, op,
                   files, unfiltered_file_count, idx, results, errors, ret, removed, lost, notify,
                   previous, probe, klass, inst>>

InitHandle == WorldQuiet /\ AsideQuiet /\ Quiet

NextHandle == Handle

\* Bodies raising inside the two error handlers (tests/test_exception_handling.py).
SpecHandle == InitHandle /\ [][NextHandle]_vars

InitNotify == Start("failing")

\* The same calls with a notification channel whose emissions may raise.
SpecNotify == InitNotify /\ [][Next]_vars

----------------------------------------------------------------------------
(* Direct evaluation of _matches_globs (tests/test_folder_operations.py,   *)
(* test_matches_globs)                                                     *)

ProbePaths ==
    { "file.txt", "subdir/file.txt", "a/b/file.txt", "./a.txt", ".git/config", "b.log",
      "sub/x.pyc", "a", "src/.venv/file.py" }

ProbeIncludes == { << >>, <<"*.txt">>, <<"**/*.txt">>, <<"*.csv", "*.log">>, <<"*">> }

ProbeExcludes ==
    { << >>, <<"file.txt">>, <<"**/*.txt">>, <<"*.log", "*.pyc">>, DEFAULT_SKIP_LIST }

InitMatch ==
    /\ tree = << >>
    /\ rootState = "ok"
    /\ list_folder_exclusions = DEFAULT_SKIP_LIST
    /\ read_file_exclusions = DEFAULT_SKIP_READ
    /\ pc = "idle"
    /\ op = Args("none", << >>, << >>, FALSE, FALSE)
    /\ files = << >>
    /\ unfiltered_file_count = 0
    /\ idx = 1
    /\ results = << >>
    /\ errors = << >>
    /\ ret = NoReturn
    /\ AsideQuiet
    /\ removed = 0
    /\ lost = {}
    /\ notify = "delivered"
    /\ previous = NoPrev

MatchProbe ==
    /\ \E path \in ProbePaths, include \in ProbeIncludes, exclude \in ProbeExcludes :
          probe' = [path |-> path, include |-> include, exclude |-> exclude,
                    result |-> MatchesGlobs(path, include, exclude)]
    /\ UNCHANGED <<tree, rootState, list_folder_exclusions, read_file_exclusions, pc, op,
                   files, unfiltered_file_count, idx, results, errors, ret, removed, lost, notify,
                   previous, handled, klass, inst>>

NextMatch == MatchProbe

SpecMatch == InitMatch /\ [][NextMatch]_vars

----------------------------------------------------------------------------
(* Properties *)

SeqSet(s) == {s[i] : i \in 1..Len(s)}

NoDuplicates(s) == \A i, j \in 1..Len(s) : s[i] = s[j] => i = j

MatchesSome(path, pats) == \E k \in 1..Len(pats) : fnmatch(path, pats[k])

\* The include/exclude rule of the specification, stated with quantifiers.
Selected(path, include, exclude) ==
    /\ include = << >> \/ MatchesSome(path, include)
    /\ ~MatchesSome(path, exclude)

\* How the recursive listing renders the entry n.
Rendered(n) == IF n.dir = "" THEN "./" \o n.name ELSE n.dir \o "/" \o n.name

ContentsDone == pc = "done" /\ op.name = "contents"

ReadAllDone == pc = "done" /\ op.name = "read_all"

\* C1: a recursive listing without bypass returns, once each, exactly the
\* entries under the root whose relative path (as the listing renders it)
\* matches no list-exclusion pattern and passes the caller's include/exclude
\* filter; on the scenario tree with include ["**/*"], no exclude and the
\* built-in defaults these are file1.txt, file2.log, subdir/file3.txt and
\* subdir/data.csv.
C1_RecursiveListingExact ==
    (ContentsDone /\ op.recurse /\ ~op.bypass /\ rootState = "ok") =>
        /\ ret.kind = "list"
        /\ NoDuplicates(ret.list)
        /\ SeqSet(ret.list) =
              { Rendered(tree[i]) : i \in
                  { j \in 1..Len(tree) :
                      /\ ~MatchesSome(Rendered(tree[j]), list_folder_exclusions)
                      /\ Selected(Rendered(tree[j]), op.include, op.exclude) } }
        /\ ( /\ tree = ScenarioTree
             /\ list_folder_exclusions = DEFAULT_SKIP_LIST
             /\ op.include = <<"**/*">>
             /\ op.exclude = << >> )
           => SeqSet(ret.list) =
                 {"./file1.txt", "./file2.log", "subdir/file3.txt", "subdir/data.csv"}

C1_Witness ==
    /\ ContentsDone /\ op.recurse /\ ~op.bypass
    /\ tree = ScenarioTree
    /\ list_folder_exclusions = DEFAULT_SKIP_LIST
    /\ op.include = <<"**/*">>
    /\ op.exclude = << >>
    /\ Len(ret.list) = 4

\* C2: the match decision is true exactly when (include is empty or the path
\* matches a pattern of include) and the path matches no pattern of exclude;
\* so it is true for empty include and exclude, and false whenever an exclude
\* pattern matches, even if an include pattern matches too.
C2_MatchDecision ==
    probe # NoProbe =>
        /\ probe.result = Selected(probe.path, probe.include, probe.exclude)
        /\ (probe.include = << >> /\ probe.exclude = << >>) => probe.result
        /\ MatchesSome(probe.path, probe.exclude) => ~probe.result

C2_Witness ==
    /\ probe # NoProbe
    /\ MatchesSome(probe.path, probe.include)
    /\ MatchesSome(probe.path, probe.exclude)
    /\ ~probe.result

\* The number of entries of a result list that carry the path f.
EntriesFor(s, f) == Cardinality({i \in 1..Len(s) : s[i].file_path = f})

\* C3: every summary has len(results) + len(errors) <= total_files, with
\* equality when every listed candidate is a regular file.
C3_CountsAddUp ==
    (ReadAllDone /\ ret.kind = "summary") =>
        LET s == ret.summary
        IN  /\ Len(s.results) + Len(s.errors) <= s.total_files
            /\ (\A i \in 1..Len(files) : IsFile(tree, files[i]))
                  => Len(s.results) + Len(s.errors) = s.total_files

\* C4: skipped_files is the length of the listing made with empty include and
\* exclude minus the length of the listing made with the caller's patterns
\* (same root, recurse and bypass), whatever the reads did.
C4_SkippedIsListingDifference ==
    (ReadAllDone /\ ret.kind = "summary") =>
        ret.summary.skipped_files =
            Len(Contents(tree, rootState, list_folder_exclusions, Root,
                         << >>, << >>, op.recurse, op.bypass).list)
          - Len(Contents(tree, rootState, list_folder_exclusions, Root,
                         op.include, op.exclude, op.recurse, op.bypass).list)

C4_Witness ==
    /\ ReadAllDone
    /\ ret.kind = "summary"
    /\ ret.summary.skipped_files > 0
    /\ ret.summary.errors # << >>

ReadFailures == {"UnicodeDecodeError", "PermissionError", "FileNotFoundError", "OSError"}

C6_MissingRootNotFound ==
    (ContentsDone /\ rootState = "missing") =>
        ret.kind = "error" /\ Category(ret.error) = "NotFound"

\* C7: when the root is missing or unreadable read_all aborts with an error
\* of the category contents reports for that root: NotFound for a missing
\* root, PermissionDenied for one that cannot be opened.
C7_ReadAllKeepsCategory ==
    (ReadAllDone /\ rootState # "ok") =>
        /\ ret.kind = "error"
        /\ Category(ret.error) =
              (IF rootState = "missing" THEN "NotFound" ELSE "PermissionDenied")

\* C8: a non-recursive listing without bypass returns no entry that matches
\* a pattern of the list-exclusion set.
C8_FlatListingOmitsExcluded ==
    (ContentsDone /\ ~op.recurse /\ ~op.bypass /\ ret.kind = "list") =>
        \A i \in 1..Len(ret.list) : ~MatchesSome(ret.list[i], list_folder_exclusions)

\* C9: a non-recursive listing returns an immediate child only if it passes
\* the caller's include/exclude filter.
C9_FlatListingFiltered ==
    (ContentsDone /\ ~op.recurse /\ ret.kind = "list") =>
        \A i \in 1..Len(ret.list) : Selected(ret.list[i], op.include, op.exclude)

\* The entries a listing starts from: every file below the root in recursive
\* mode, the immediate children of the root otherwise.
RawEntries(recurse) ==
    IF recurse THEN {Rendered(tree[i]) : i \in 1..Len(tree)}
    ELSE SeqSet(OsListdir(tree, rootState).names)

\* C10: with bypass the listing is what the caller's include/exclude select
\* from the raw entries, in both modes, and it is the same for every
\* configured list-exclusion set; on the scenario tree with include ["**/*"]
\* a recursive listing has all seven files.
C10_BypassIgnoresDefaults ==
    (ContentsDone /\ op.bypass /\ rootState = "ok") =>
        /\ ret.kind = "list"
        /\ SeqSet(ret.list) =
              {e \in RawEntries(op.recurse) : Selected(e, op.include, op.exclude)}
        /\ \A c \in Configs :
              SeqSet(Contents(tree, rootState, c.list, Root, op.include, op.exclude,
                              op.recurse, op.bypass).list) = SeqSet(ret.list)
        /\ (tree = ScenarioTree /\ op.recurse /\ op.include = <<"**/*">> /\ op.exclude = << >>)
              => Len(ret.list) = Len(ScenarioTree)

\* The relative paths that a summary accounts for, as success or as error.
SummaryPaths(s) ==
    {s.results[i].file_path : i \in 1..Len(s.results)}
        \cup {s.errors[i].file_path : i \in 1..Len(s.errors)}

\* C11: for the same tree, root, include, exclude and recurse, the listing of
\* contents with bypass_default_exclusions=True contains every entry of the
\* listing without it, and the paths in results and errors of read_all with
\* the bypass contain every such path of read_all without it.
C11_BypassOnlyAdds ==
    (pc = "done" /\ previous # NoPrev) =>
        /\ previous.ret.kind = "list" =>
              /\ ret.kind = "list"
              /\ SeqSet(previous.ret.list) \subseteq SeqSet(ret.list)
        /\ previous.ret.kind = "summary" =>
              /\ ret.kind = "summary"
              /\ SummaryPaths(previous.ret.summary) \subseteq SummaryPaths(ret.summary)

\* Both calls of read_all returned, the first one read something and the
\* bypassing one accounts for more paths.
C11_Witness ==
    /\ pc = "done"
    /\ previous # NoPrev
    /\ previous.ret.kind = "summary"
    /\ ret.kind = "summary"
    /\ SummaryPaths(previous.ret.summary) # {}
    /\ SummaryPaths(previous.ret.summary) # SummaryPaths(ret.summary)

\* C12: in read_all without bypass a listed file that matches a
\* read-exclusion pattern is never opened and has no entry in results or in
\* errors; with bypass the read exclusions are not applied: such a file, when
\* it is a regular file, has exactly one entry, a success if it reads and
\* otherwise an error with the failure of the read.
C12_ReadExclusionsSkip ==
    /\ (pc = "open" /\ ~op.bypass) => ~MatchesSome(files[idx], read_file_exclusions)
    /\ (ReadAllDone /\ ret.kind = "summary") =>
          \A f \in SeqSet(files) :
             MatchesSome(f, read_file_exclusions) =>
                IF ~op.bypass
                THEN /\ EntriesFor(ret.summary.results, f) = 0
                     /\ EntriesFor(ret.summary.errors, f) = 0
                ELSE IsFile(tree, f) =>
                        IF OpenRead(tree, f) = ""
                        THEN /\ EntriesFor(ret.summary.results, f) = 1
                             /\ EntriesFor(ret.summary.errors, f) = 0
                        ELSE /\ EntriesFor(ret.summary.results, f) = 0
                             /\ \E i \in 1..Len(ret.summary.errors) :
                                   ret.summary.errors[i] =
                                       [file_path |-> f, error |-> OpenRead(tree, f)]

\* read_all without bypass has returned a summary whose listing holds a
\* regular file that matches a read-exclusion pattern, next to a file it read.
C12_Witness ==
    /\ ReadAllDone
    /\ ret.kind = "summary"
    /\ ~op.bypass
    /\ \E f \in SeqSet(files) :
          MatchesSome(f, read_file_exclusions) /\ IsFile(tree, f)
    /\ ret.summary.results # << >>

\* read_all with bypass has read a file that matches a read-exclusion pattern.
C12_WitnessBypass ==
    /\ ReadAllDone
    /\ ret.kind = "summary"
    /\ op.bypass
    /\ \E i \in 1..Len(ret.summary.results) :
          MatchesSome(ret.summary.results[i].file_path, read_file_exclusions)

\* C13: when a regular file of read_all's listing is removed by another
\* process before read_all has read it, the call still returns a summary and
\* the summary holds an error entry for the file's relative path (files the
\* read exclusions skip aside).
C13_VanishedFileReported ==
    (ReadAllDone /\ lost # {}) =>
        /\ ret.kind = "summary"
        /\ \A f \in lost :
              (op.bypass \/ ~MatchesSome(f, read_file_exclusions)) =>
                  EntriesFor(ret.summary.errors, f) >= 1

\* C14: the outcome of contents and of read_all is the same whether or not
\* the notifications are delivered: contents returns the listing it computes,
\* read_all fails only when a listing fails, and every error entry of a
\* summary carries the failure of reading that file.
C14_NotificationsDoNotMatter ==
    /\ ContentsDone =>
          ret = Contents(tree, rootState, list_folder_exclusions, Root,
                         op.include, op.exclude, op.recurse, op.bypass)
    /\ ReadAllDone =>
          /\ ret.kind = "error" =>
                "error" \in
                    { Contents(tree, rootState, list_folder_exclusions, Root,
                               op.include, op.exclude, op.recurse, op.bypass).kind,
                      Contents(tree, rootState, list_folder_exclusions, Root,
                               << >>, << >>, op.recurse, op.bypass).kind }
          /\ ret.kind = "summary" =>
                \A i \in 1..Len(ret.summary.errors) :
                    ret.summary.errors[i].error =
                        OpenRead(tree, ret.summary.errors[i].file_path)

\* Position after the first line of s (a line ends with "\r\n", "\n" or "\r",
\* or with the text), s not empty.
RECURSIVE LineEnd(_, _)
LineEnd(s, i) ==
    IF i > Len(s) THEN Len(s)
    ELSE IF Ch(s, i) = "\n" THEN i
    ELSE IF Ch(s, i) = "\r"
    THEN (IF i < Len(s) /\ Ch(s, i + 1) = "\n" THEN i + 1 ELSE i)
    ELSE LineEnd(s, i + 1)

\* The lines of the stored text, each with its terminator as stored.
RECURSIVE StoredLines(_)
StoredLines(s) ==
    IF s = "" THEN << >>
    ELSE <<SubSeq(s, 1, LineEnd(s, 1))>> \o StoredLines(SubSeq(s, LineEnd(s, 1) + 1, Len(s)))

\* The only file of a head/tail read and its success entry.
WindowRead ==
    /\ ReadAllDone
    /\ ret.kind = "summary"
    /\ Len(ret.summary.results) = 1

\* C15: with head = N > 0 the content of a success is the first min(N, L)
\* lines of the L-line file, each with its terminator as stored, whatever
\* tail is; with head = 0 and tail = 0 the content is the whole file.
C15_HeadWinsOverTail ==
    WindowRead =>
        LET stored == Stored(tree, ret.summary.results[1].file_path)
            lines == StoredLines(stored)
            content == ret.summary.results[1].content
        IN  /\ op.head > 0 =>
                 content = StrJoin(SubSeq(lines, 1, IF op.head < Len(lines)
                                                    THEN op.head ELSE Len(lines)))
            /\ (op.head = 0 /\ op.tail = 0) => content = stored

\* C15 for the files whose lines end with "\n": the same statement.
C15_HeadWinsOverTailLineFeed ==
    (WindowRead /\ \A i \in 1..Len(Stored(tree, ret.summary.results[1].file_path)) :
                      Ch(Stored(tree, ret.summary.results[1].file_path), i) # "\r")
        => C15_HeadWinsOverTail

\* The segments of a path or pattern between its "/" separators.
RECURSIVE Segments(_)
Segments(s) ==
    LET k == SlashFrom(s, 1)
    IN  IF k = 0 THEN <<s>>
        ELSE <<SubSeq(s, 1, k - 1)>> \o Segments(SubSeq(s, k + 1, Len(s)))

\* Reference glob semantics on segments: "**" stands for zero or more
\* segments, any other pattern segment for exactly one path segment, within
\* which "*" and "?" match no separator.
RECURSIVE GlobSegments(_, _)
GlobSegments(ps, qs) ==
    IF qs = << >> THEN ps = << >>
    ELSE IF Head(qs) = "**"
    THEN GlobSegments(ps, Tail(qs)) \/ (ps # << >> /\ GlobSegments(Tail(ps), qs))
    ELSE /\ ps # << >>
         /\ fnmatch(Head(ps), Head(qs))
         /\ GlobSegments(Tail(ps), Tail(qs))

GlobMatch(path, pat) == GlobSegments(Segments(path), Segments(pat))

\* C16: the matcher agrees with reference glob semantics: with one include
\* pattern and no exclude it accepts a path exactly when the pattern matches
\* it with "*" matching no separator and "**" matching zero or more segments;
\* so "*.txt" accepts file.txt and not subdir/file.txt, and "**/*.txt" accepts
\* file.txt, subdir/file.txt and a/b/file.txt.
C16_GlobSemantics ==
    (probe # NoProbe /\ Len(probe.include) = 1 /\ probe.exclude = << >>) =>
        probe.result = GlobMatch(probe.path, probe.include[1])

\* The instances that the reference semantics decides as the claim says.
C16_ReferenceInstances ==
    /\ GlobMatch("file.txt", "*.txt")
    /\ ~GlobMatch("subdir/file.txt", "*.txt")
    /\ GlobMatch("file.txt", "**/*.txt")
    /\ GlobMatch("subdir/file.txt", "**/*.txt")
    /\ GlobMatch("a/b/file.txt", "**/*.txt")

\* The entries of a listing that name the root-level entry called name.
EntriesNaming(l, name) == {e \in SeqSet(l) : Normalize(e) = name}

C18_DeniedOperationsRemoved ==
    inst # NoInst =>
        /\ inst.outcome = "ok"
        /\ \A k \in 1..Len(inst.denied) :
              inst.denied[k] \in OwnNames[inst.class] => ~HasAttr(inst.class, inst.denied[k])
        /\ \A name \in OwnNames[inst.class] \ SeqSet(inst.denied) :
              HasAttr(inst.class, name)

\* C18 for the first construction of a class with a list of tools of the
\* class and of names that no class has.
C18_FirstConstructionOfTools ==
    (/\ inst # NoInst
     /\ SeqSet(inst.denied) \cap Inherited = {}
     /\ \A c \in DOMAIN OwnNames : c # inst.class => klass[c] = OwnNames[c]
     /\ OwnNames[inst.class] \subseteq klass[inst.class] \cup SeqSet(inst.denied))
        => /\ inst.outcome = "ok"
           /\ \A k \in 1..Len(inst.denied) : ~HasAttr(inst.class, inst.denied[k])

\* sub occurs in s
Contains(s, sub) ==
    \E i \in 1..(Len(s) - Len(sub) + 1) : SubSeq(s, i, i + Len(sub) - 1) = sub

\* C19: an exception raised inside handle_file_errors(path) or
\* handle_folder_errors(path) leaves as one MCP error of that handler's kind
\* carrying the path: the not-found error for FileNotFoundError, the
\* operation error saying "Permission denied" for PermissionError, the
\* operation error saying "An unexpected error occurred" for any other; when
\* nothing is raised nothing leaves.
C19_HandlersClassify ==
    handled # NoHandled =>
        LET kind == IF handled.handler = "handle_file_errors" THEN "File" ELSE "Folder"
            e == handled.out
        IN  IF handled.raised = "" THEN e = NoError
            ELSE /\ e.path = handled.path
                 /\ Contains(ErrorText(e), handled.path)
                 /\ IF handled.raised = "FileNotFoundError"
                    THEN e.type = "MCP" \o kind \o "NotFoundError"
                    ELSE /\ e.type = "MCP" \o kind \o "OperationError"
                         /\ Contains(ErrorText(e),
                                     IF handled.raised = "PermissionError"
                                     THEN "Permission denied"
                                     ELSE "An unexpected error occurred")

\* handle_file_errors has turned a PermissionError into its operation error.
C19_Witness ==
    /\ handled.handler = "handle_file_errors"
    /\ handled.raised = "PermissionError"
    /\ handled.out.type = "MCPFileOperationError"
    /\ handled.path = "test_file.txt"

\* C20: in every summary no relative path has an entry in results and an
\* entry in errors, and each listed file has at most one entry in all.
C20_SuccessOrErrorNotBoth ==
    (ReadAllDone /\ ret.kind = "summary") =>
        /\ SummaryPaths(ret.summary) \subseteq SeqSet(files)
        /\ \A f \in SeqSet(files) :
              EntriesFor(ret.summary.results, f) + EntriesFor(ret.summary.errors, f) <= 1

\* C21: skipped_files is not negative in any summary of read_all, also when
\* another process creates or removes files under the root between the
\* filtered and the unfiltered listing.
C21_SkippedNeverNegative ==
    (ReadAllDone /\ ret.kind = "summary") => ret.summary.skipped_files >= 0

\* C21 for the calls during which no file is removed: files created by
\* another process only add to the unfiltered count.
C21_SkippedNeverNegativeWithoutRemoval ==
    (ReadAllDone /\ ret.kind = "summary" /\ removed = 0) =>
        ret.summary.skipped_files >= 0

\* C22: disabling is local to the instance being constructed: an instance
\* constructed with no denied operations has every tool of its class,
\* whatever earlier constructions denied.
C22_DenialIsPerInstance ==
    (inst # NoInst /\ inst.denied = << >>) =>
        /\ inst.outcome = "ok"
        /\ \A name \in OwnNames[inst.class] : HasAttr(inst.class, name)

====
